---- MODULE Spec2Model ----
(***************************************************************************)
(* Model of the file based gNMI configuration injector                     *)
(* (plugins/inputs/gnmi/fileConfigInjector.go): the inventory document,    *)
(* groupDevices, init, GetConfigs and GetTags.                             *)
(*                                                                         *)
(* Go values are represented as follows.                                   *)
(*   string            a TLA+ string; "" is the zero value                 *)
(*   []string          a sequence of strings                               *)
(*   map[string]V      a function whose DOMAIN is the set of present keys; *)
(*                     a nil map is the function with the empty domain     *)
(*   []subscription    while groupDevices runs: a slice header (backing    *)
(*                     array, length); once returned: the sequence of the  *)
(*                     elements the header denotes                         *)
(*   []SharedConfig    a record [isNil, elems], because GetConfigs tests   *)
(*                     the slice against nil                               *)
(*   error             a string, "" for nil                                *)
(***************************************************************************)
EXTENDS Integers, Sequences, FiniteSets, TLC

\* ------------------------------------------------------------------ bounds
\* Largest number of entries of the "devices" list of a document.
MaxDevices == 2

\* Largest number of unused element slots that the decoder leaves behind the
\* last element of a non-empty slice of a common-config template (cap - len).
MaxSpare == 1

\* ------------------------------------------------------------ Go helpers
EmptyMap == [k \in {} |-> ""]

Has(m, k) == k \in DOMAIN m

NoErr == ""

NilSlice == [isNil |-> TRUE, elems |-> <<>>]

\* append(s, e) on a []SharedConfig: the result is never nil.
AppendSlice(s, e) == [isNil |-> FALSE, elems |-> Append(s.elems, e)]

RECURSIVE Join(_)
\* The elements of a []string separated by single spaces.
Join(list) ==
    IF list = <<>> THEN ""
    ELSE IF Len(list) = 1 THEN list[1]
    ELSE list[1] \o " " \o Join(Tail(list))

\* fmt's %v verb applied to a []string: "[e1 e2 ... en]".
FormatList(list) == "[" \o Join(list) \o "]"

\* --------------------------------------------------- the inventory document
\* shared_subscriptions.subscriptions: group ID -> stored Subscription list.
\* "a b" and "m" are not keys.
SharedSubscriptions ==
    ("a"   :> << [Id |-> "s1", subscription |-> "p1"] >>) @@
    ("b"   :> << [Id |-> "s2", subscription |-> "p2"] >>) @@
    ("c"   :> << [Id |-> "s3", subscription |-> "p1"] >>)

\* shared_subscriptions.tag_subscriptions: group ID -> stored TagSubscription
\* list.  "t u" is not a key.
SharedTagSubscriptions ==
    ("t" :> << [ID |-> "ts1", tagSubscription |-> "q1"] >>) @@
    ("u" :> << [ID |-> "ts2", tagSubscription |-> "q2"] >>)

\* shared_common_configs: ID -> template.  The template lists subscriptions
\* and tag-subscriptions of its own and no member address.
SharedCommonConfigs ==
    ("T" :> [Subscriptions    |-> << "p0" >>,
             TagSubscriptions |-> << "q0" >>,
             Addresses        |-> << >>])

\* shared_tags: group ID -> flat tag map ("gx" is not a key).
SharedTags ==
    ("g1" :> (("env" :> "prod") @@ ("region" :> "us"))) @@
    ("g2" :> (("env" :> "stage") @@ ("site" :> "x")))

\* The value of a SharedConfig that a map lookup yields for an absent key.
ZeroSharedConfig ==
    [Subscriptions |-> << >>, TagSubscriptions |-> << >>, Addresses |-> << >>]

\* The addresses devices carry, by position in the pool.
AddressPool == << "A", "B", "C", "D" >>

\* An address that no device of any document carries.
UnknownAddress == "10.0.0.99"

\* What a device declares besides its address.
Profile(subs, tagSubs, config, tagGroups, tags) ==
    [Subscriptions |-> subs, TagSubscriptions |-> tagSubs, SharedConfig |-> config,
     SharedTagGroups |-> tagGroups, Tags |-> tags]

\* Devices that differ in what decides their configuration group: no
\* reference and no template; IDs "a" and "c" that resolve to the same
\* subscriptions; a missing ID "m" next to one that resolves; the lists
\* (a, b) and (a b), of which the second names missing IDs only.
GroupingProfiles ==
    { Profile(<< >>,          << >>,          "",  << >>, EmptyMap),
      Profile(<< "a" >>,      << >>,          "T", << >>, EmptyMap),
      Profile(<< "c" >>,      << >>,          "T", << >>, EmptyMap),
      Profile(<< "m", "b" >>, << >>,          "T", << >>, EmptyMap),
      Profile(<< "a", "b" >>, << "t", "u" >>, "T", << >>, EmptyMap),
      Profile(<< "a b" >>,    << "t u" >>,    "T", << >>, EmptyMap) }

LocalTagChoices == { EmptyMap, ("env" :> "dev") @@ ("host" :> "h") }

TagGroupChoices == { << >>, << "g1", "g2" >>, << "g2", "g1" >>, << "gx", "g1" >> }

\* Devices that differ in what decides their tags.
TaggedProfiles ==
    { Profile(<< "a" >>, << >>, "", g, t) : g \in TagGroupChoices, t \in LocalTagChoices }

\* The ways addresses are given to a list of k devices: all different, and
\* the last device repeating the address of the first.
AddressLists(k) ==
    { [i \in 1..k |-> AddressPool[i]],
      [i \in 1..k |-> AddressPool[IF i = k THEN 1 ELSE i]] }

Device(profile, address) ==
    [Address |-> address, Subscriptions |-> profile.Subscriptions,
     TagSubscriptions |-> profile.TagSubscriptions,
     SharedConfig |-> profile.SharedConfig,
     SharedTagGroups |-> profile.SharedTagGroups, Tags |-> profile.Tags]

\* The "devices" lists of at most MaxDevices devices over a set of profiles.
DeviceLists(profiles) ==
    UNION { { [i \in 1..k |-> Device(ps[i], as[i])] :
                ps \in [1..k -> profiles], as \in AddressLists(k) } :
            k \in 0..MaxDevices }

\* The addresses a device of some document can carry.
Addresses == { AddressPool[i] : i \in 1..MaxDevices }

\* The decoded document for a device list.
InputData(devs) ==
    [SharedSubscriptions |-> [Subscriptions    |-> SharedSubscriptions,
                              TagSubscriptions |-> SharedTagSubscriptions],
     SharedCommonConfigs |-> SharedCommonConfigs,
     SharedTags          |-> SharedTags,
     Devices             |-> devs]

\* ------------------------------------------------------------ slice headers
\* A []subscription or []tagSubscription value while groupDevices runs.  A
\* header copied out of a template (shared = TRUE) denotes the first len slots
\* of the template's backing array base; any other header owns its elements.
SliceOf(id, elems) ==
    IF Len(elems) > 0
    THEN [shared |-> TRUE,  base |-> id, len |-> Len(elems), own |-> << >>]
    ELSE [shared |-> FALSE, base |-> "", len |-> 0,          own |-> << >>]

\* The backing array the decoder built for a template's list: its elements
\* followed by the unused slots (zero values) up to the capacity.
BackingArray(elems, spare) ==
    IF Len(elems) > 0 THEN elems \o [i \in 1..spare |-> ""] ELSE elems

\* The elements a header denotes, given the backing arrays.
Elements(arr, s) == IF s.shared THEN SubSeq(arr[s.base], 1, s.len) ELSE s.own

\* Go's append(s, e).  st = [arr, s, warns]: the backing arrays, the header
\* appended to and the warnings logged so far.  With room left in the backing
\* array the element is written in place, behind the header's length; without
\* room the elements move to a new array that only this header refers to.
SliceAppend(st, e) ==
    IF st.s.shared /\ st.s.len < Len(st.arr[st.s.base])
    THEN [st EXCEPT !.arr[st.s.base][st.s.len + 1] = e, !.s.len = @ + 1]
    ELSE [st EXCEPT !.s = [shared |-> FALSE, base |-> "", len |-> @.len + 1,
                           own |-> Append(Elements(st.arr, @), e)]]

\* ------------------------------------------------------------ groupDevices
\* The grouping key of a device.
GroupKey(device) ==
    FormatList(device.Subscriptions) \o "|" \o device.SharedConfig \o "|"
        \o FormatList(device.TagSubscriptions)

\* d.SharedCommonConfigs[id], the zero value for an absent id.
LookupConfig(d, id) ==
    IF Has(d.SharedCommonConfigs, id) THEN d.SharedCommonConfigs[id]
    ELSE ZeroSharedConfig

RECURSIVE AppendShared(_, _, _)
\* Append the payload (field) of every stored entry, in stored order.
AppendShared(st, entries, field) ==
    IF entries = << >> THEN st
    ELSE AppendShared(SliceAppend(st, entries[1][field]), Tail(entries), field)

\* The warning logged for a reference that is not in its dictionary.
Warning(kind, key) == [kind |-> kind, key |-> key]

\* One iteration of a reference loop: append the group's entries if the
\* dictionary has the key, log a warning otherwise.
ResolveKey(st, key, dict, field, kind) ==
    IF Has(dict, key) THEN AppendShared(st, dict[key], field)
    ELSE [st EXCEPT !.warns = Append(@, Warning(kind, key))]

RECURSIVE ResolveKeys(_, _, _, _, _)
\* A reference loop over the keys a device declares, in declared order.
ResolveKeys(st, keys, dict, field, kind) ==
    IF keys = << >> THEN st
    ELSE ResolveKeys(ResolveKey(st, keys[1], dict, field, kind),
                     Tail(keys), dict, field, kind)

\* The body of "if the group doesn't exist": thisConfig is a copy of the
\* template's headers, extended by the device's resolvable references, and
\* becomes the group of the key.  acc = [groupMap, tagMap, warns, subArr,
\* tagArr].
CreateGroup(d, acc, device, key) ==
    LET thisConfig == LookupConfig(d, device.SharedConfig)
        subs == ResolveKeys(
                   [arr |-> acc.subArr, warns |-> acc.warns,
                    s |-> SliceOf(device.SharedConfig, thisConfig.Subscriptions)],
                   device.Subscriptions,
                   d.SharedSubscriptions.Subscriptions, "subscription", "sub")
        tags == ResolveKeys(
                   [arr |-> acc.tagArr, warns |-> subs.warns,
                    s |-> SliceOf(device.SharedConfig, thisConfig.TagSubscriptions)],
                   device.TagSubscriptions,
                   d.SharedSubscriptions.TagSubscriptions, "tagSubscription", "tag")
    IN  [acc EXCEPT
           !.groupMap = (key :> [Subscriptions    |-> subs.s,
                                 TagSubscriptions |-> tags.s,
                                 Addresses        |-> thisConfig.Addresses]) @@ @,
           !.subArr = subs.arr,
           !.tagArr = tags.arr,
           !.warns  = tags.warns]

\* The DeviceTag stored for a device.
DeviceTag(device) ==
    [sharedTagIds |-> device.SharedTagGroups, tags |-> device.Tags]

\* GroupDevice putting the address in front of the members instead of behind.
GroupDevicePrepend(d, acc, device) ==
    LET key  == GroupKey(device)
        acc1 == IF ~Has(acc.groupMap, key) THEN CreateGroup(d, acc, device, key)
                ELSE acc
    IN  [acc1 EXCEPT
           !.tagMap = (device.Address :> DeviceTag(device)) @@ @,
           !.groupMap[key].Addresses = << device.Address >> \o @]

\* GroupDevice adding the address inside the "group doesn't exist" branch, so
\* that only the device that creates a group becomes a member.
GroupDeviceCreatorOnly(d, acc, device) ==
    LET key  == GroupKey(device)
        acc1 == IF ~Has(acc.groupMap, key)
                THEN [CreateGroup(d, acc, device, key) EXCEPT
                        !.groupMap[key].Addresses = Append(@, device.Address)]
                ELSE acc
    IN  [acc1 EXCEPT !.tagMap = (device.Address :> DeviceTag(device)) @@ @]

\* One iteration of the loop over d.Devices.
GroupDevice(d, acc, device) ==
    LET key  == GroupKey(device)
        acc1 == IF ~Has(acc.groupMap, key) THEN CreateGroup(d, acc, device, key)
                ELSE acc
    IN  [acc1 EXCEPT
           !.tagMap = (device.Address :> DeviceTag(device)) @@ @,
           !.groupMap[key].Addresses = Append(@, device.Address)]

RECURSIVE GroupLoop(_, _, _)
GroupLoop(d, acc, devices) ==
    IF devices = << >> THEN acc
    ELSE GroupLoop(d, GroupDevice(d, acc, devices[1]), Tail(devices))

\* The state of groupDevices when the loop over the devices is done.
GroupAll(d, spare) ==
    GroupLoop(d,
        [groupMap |-> EmptyMap, tagMap |-> EmptyMap, warns |-> << >>,
         subArr |-> [id \in DOMAIN d.SharedCommonConfigs |->
                       BackingArray(d.SharedCommonConfigs[id].Subscriptions, spare)],
         tagArr |-> [id \in DOMAIN d.SharedCommonConfigs |->
                       BackingArray(d.SharedCommonConfigs[id].TagSubscriptions, spare)]],
        d.Devices)

\* *group as the caller of groupDevices sees it.
GroupValue(acc, key) ==
    [Subscriptions    |-> Elements(acc.subArr, acc.groupMap[key].Subscriptions),
     TagSubscriptions |-> Elements(acc.tagArr, acc.groupMap[key].TagSubscriptions),
     Addresses        |-> acc.groupMap[key].Addresses]

\* The orders a range over a map with the given keys can visit them in: the
\* language leaves the iteration order of a map unspecified.
RangeOrders(keys) ==
    { o \in [1..Cardinality(keys) -> keys] : \A i, j \in DOMAIN o : o[i] = o[j] => i = j }

RECURSIVE CollectGroups(_, _, _)
\* "var groups; for range groupMap { groups = append(groups, *group) }"
CollectGroups(acc, order, groups) ==
    IF order = << >> THEN groups
    ELSE CollectGroups(acc, Tail(order), AppendSlice(groups, GroupValue(acc, order[1])))

\* What groupDevices returns and logs, given its state acc when the loop over
\* the devices is done and the order in which the final range visits groupMap.
groupDevices(acc, order) ==
    [groups |-> CollectGroups(acc, order, NilSlice),
     tagMap |-> acc.tagMap,
     warns  |-> acc.warns]

\* ------------------------------------------------------------------ GetTags
\* ExtendWith keeping the entries t already has (if _, ok := t[key]; !ok).
ExtendWithKeep(t, sharedTags_, sharedTagID) ==
    IF Has(sharedTags_, sharedTagID) THEN t @@ sharedTags_[sharedTagID] ELSE t

\* Overlay one shared tag group on t if the group exists: its entries
\* overwrite the entries of t with the same key.
ExtendWith(t, sharedTags_, sharedTagID) ==
    IF Has(sharedTags_, sharedTagID) THEN sharedTags_[sharedTagID] @@ t ELSE t

RECURSIVE ExtendTags(_, _, _)
\* The loop over sharedTagIds, in stored order.
ExtendTags(t, sharedTags_, sharedTagIds) ==
    IF sharedTagIds = << >> THEN t
    ELSE ExtendTags(ExtendWith(t, sharedTags_, sharedTagIds[1]),
                    sharedTags_, Tail(sharedTagIds))

\* GetTagsResult reporting an address without entry as an error.
GetTagsResultStrict(deviceTags_, sharedTags_, address) ==
    IF ~Has(deviceTags_, address) THEN [tags |-> EmptyMap, err |-> "unknown address"]
    ELSE [tags |-> ExtendTags(deviceTags_[address].tags, sharedTags_,
                              deviceTags_[address].sharedTagIds),
          err  |-> NoErr]

\* What GetTags returns, given f.deviceTags and f.sharedTags.
GetTagsResult(deviceTags_, sharedTags_, address) ==
    IF ~Has(deviceTags_, address) THEN [tags |-> EmptyMap, err |-> NoErr]
    ELSE [tags |-> ExtendTags(deviceTags_[address].tags, sharedTags_,
                              deviceTags_[address].sharedTagIds),
          err  |-> NoErr]

\* --------------------------------------------------------------- GetConfigs
\* GetConfigsResult serving an empty list instead of the error.
GetConfigsResultLenient(collectorConfigs_, addresses) ==
    IF collectorConfigs_.isNil
    THEN [groups |-> [isNil |-> FALSE, elems |-> << >>], err |-> NoErr]
    ELSE [groups |-> collectorConfigs_, err |-> NoErr]

\* What GetConfigs returns, given f.collectorConfigs.
GetConfigsResult(collectorConfigs_, addresses) ==
    IF collectorConfigs_.isNil
    THEN [groups |-> NilSlice, err |-> "gnmi collector configs are not initialized"]
    ELSE [groups |-> collectorConfigs_, err |-> NoErr]

\* ------------------------------------------------------------------- state
VARIABLES
    devices,           \* the "devices" list of the document at f.FilePath
    spare,             \* unused slots the decoder leaves in template slices
    Log,               \* f.Log: [isNil, warns], warns = lines of the last init
    sharedTags,        \* f.sharedTags
    deviceTags,        \* f.deviceTags
    collectorConfigs,  \* f.collectorConfigs
    ret                \* the last call: [op, arg, groups, tags, err]

vars == << devices, spare, Log, sharedTags, deviceTags, collectorConfigs, ret >>

NoCall == [op |-> "none", arg |-> << >>, groups |-> NilSlice, tags |-> EmptyMap,
           err |-> NoErr]

\* A freshly constructed FileConfigInjector: every field is its zero value.
Init ==
    /\ \/ devices \in DeviceLists(GroupingProfiles) /\ spare \in 0..MaxSpare
       \/ devices \in DeviceLists(TaggedProfiles) /\ spare = 0
    /\ Log = [isNil |-> TRUE, warns |-> << >>]
    /\ sharedTags = EmptyMap
    /\ deviceTags = EmptyMap
    /\ collectorConfigs = NilSlice
    /\ ret = NoCall

\* The errors loadJSONFromFile can return.
LoadErrors == {"could not open file", "could not decode JSON"}

\* init when loadJSONFromFile fails: nothing of f is assigned.
InitFailed ==
    /\ \E e \in LoadErrors :
          ret' = [NoCall EXCEPT !.op = "init", !.err = e]
    /\ UNCHANGED << devices, spare, Log, sharedTags, deviceTags, collectorConfigs >>

\* init when the document is read and decoded.
InitLoaded ==
    LET c == InputData(devices)
    IN  \E acc \in {GroupAll(c, spare)} :
        \E order \in RangeOrders(DOMAIN acc.groupMap) :
        \E r \in {groupDevices(acc, order)} :
              /\ Log' = [isNil |-> FALSE, warns |-> r.warns]
              /\ sharedTags' = c.SharedTags
              /\ deviceTags' = r.tagMap
              /\ collectorConfigs' = r.groups
              /\ ret' = [NoCall EXCEPT !.op = "init"]
              /\ UNCHANGED << devices, spare >>

init == InitFailed \/ InitLoaded

\* The addresses arguments GetConfigs is called with.
AddressArgs == { << >>, << UnknownAddress >> }

GetConfigs ==
    /\ \E addresses \in AddressArgs :
          LET r == GetConfigsResult(collectorConfigs, addresses)
          IN  ret' = [NoCall EXCEPT !.op = "GetConfigs", !.arg = addresses,
                         !.groups = r.groups, !.err = r.err]
    /\ UNCHANGED << devices, spare, Log, sharedTags, deviceTags, collectorConfigs >>

GetTags ==
    /\ \E address \in Addresses \cup {UnknownAddress} :
          LET r == GetTagsResult(deviceTags, sharedTags, address)
          IN  ret' = [NoCall EXCEPT !.op = "GetTags", !.arg = << address >>,
                         !.tags = r.tags, !.err = r.err]
    /\ UNCHANGED << devices, spare, Log, sharedTags, deviceTags, collectorConfigs >>

Next == init \/ GetConfigs \/ GetTags

Spec == Init /\ [][Next]_vars

\* ------------------------------------------------ vocabulary of the properties
Range(q) == { q[i] : i \in DOMAIN q }

\* An init has completed successfully: only then is f.Log assigned.
Resolved == ~Log.isNil

\* The groups GetConfigs hands out.
Groups == collectorConfigs.elems

DeviceAddresses == { devices[i].Address : i \in DOMAIN devices }

UniqueAddresses ==
    \A i, j \in DOMAIN devices : devices[i].Address = devices[j].Address => i = j

\* The last device of the list that carries the address.
LastDeviceAt(address) ==
    devices[CHOOSE i \in DOMAIN devices :
               /\ devices[i].Address = address
               /\ \A j \in DOMAIN devices : devices[j].Address = address => j <= i]

\* The template a device names, empty if it names none that exists.
TemplateOf(device) ==
    IF device.SharedConfig \in DOMAIN SharedCommonConfigs
    THEN SharedCommonConfigs[device.SharedConfig] ELSE ZeroSharedConfig

RECURSIVE Resolvable(_, _, _)
\* The payloads of the groups that exist among the referenced ones, in
\* reference order and stored order.
Resolvable(keys, dict, field) ==
    IF keys = << >> THEN << >>
    ELSE (IF keys[1] \in DOMAIN dict
          THEN [i \in DOMAIN dict[keys[1]] |-> dict[keys[1]][i][field]]
          ELSE << >>) \o Resolvable(Tail(keys), dict, field)

EffectiveSubscriptions(device) ==
    TemplateOf(device).Subscriptions
        \o Resolvable(device.Subscriptions, SharedSubscriptions, "subscription")

EffectiveTagSubscriptions(device) ==
    TemplateOf(device).TagSubscriptions
        \o Resolvable(device.TagSubscriptions, SharedTagSubscriptions, "tagSubscription")

\* The references of a device that are not in their dictionary.
MissingSubscriptions(device) == Range(device.Subscriptions) \ DOMAIN SharedSubscriptions

MissingTagSubscriptions(device) ==
    Range(device.TagSubscriptions) \ DOMAIN SharedTagSubscriptions

\* The device has no reference that resolves.
NothingResolvable(device) ==
    /\ MissingSubscriptions(device) = Range(device.Subscriptions)
    /\ MissingTagSubscriptions(device) = Range(device.TagSubscriptions)

\* Some group lists the addresses of both devices.
InSameGroup(i, j) ==
    \E g \in DOMAIN Groups :
        {devices[i].Address, devices[j].Address} \subseteq Range(Groups[g].Addresses)

Keys == { GroupKey(devices[i]) : i \in DOMAIN devices }

RECURSIVE FirstSeen(_, _)
\* The distinct grouping keys of a device list, in order of first occurrence.
FirstSeen(devs, seen) ==
    IF devs = << >> THEN << >>
    ELSE IF GroupKey(devs[1]) \in seen THEN FirstSeen(Tail(devs), seen)
    ELSE << GroupKey(devs[1]) >> \o FirstSeen(Tail(devs), seen \cup {GroupKey(devs[1])})

HasKey(k) == [device \in Range(devices) |-> GroupKey(device) = k]

\* The addresses of the devices with the key, in device list order.
AddressesWithKey(k) ==
    LET sel == SelectSeq(devices, LAMBDA device : HasKey(k)[device])
    IN  [i \in DOMAIN sel |-> sel[i].Address]

\* The first device of the list with the key.
Creator(k) ==
    devices[CHOOSE i \in DOMAIN devices :
               /\ GroupKey(devices[i]) = k
               /\ \A j \in DOMAIN devices : GroupKey(devices[j]) = k => i <= j]

RECURSIVE MemberCount(_)
MemberCount(groups) ==
    IF groups = << >> THEN 0
    ELSE Len(groups[1].Addresses) + MemberCount(Tail(groups))

\* How often an address is listed over all groups.
Occurrences(address) ==
    Cardinality({ gp \in (DOMAIN Groups) \X (1..Len(devices)) :
                    /\ gp[2] \in DOMAIN Groups[gp[1]].Addresses
                    /\ Groups[gp[1]].Addresses[gp[2]] = address })

\* ---------------------------------------------------------------- properties

\* C1: after a resolve, two devices are members of the same group if and only
\* if their effective subscription sequence, their effective tag-subscription
\* sequence and their common-config ID are identical (stated for inventories
\* whose addresses are unique, where membership identifies the device).
C1_GroupedByEffectiveConfiguration ==
    (Resolved /\ UniqueAddresses) =>
        \A i, j \in DOMAIN devices :
            InSameGroup(i, j) <=>
                /\ EffectiveSubscriptions(devices[i]) = EffectiveSubscriptions(devices[j])
                /\ EffectiveTagSubscriptions(devices[i]) = EffectiveTagSubscriptions(devices[j])
                /\ devices[i].SharedConfig = devices[j].SharedConfig

\* C2: the groups are returned in the order in which their grouping keys
\* first occur in the device list.
C2_GroupsInFirstOccurrenceOrder ==
    Resolved =>
        LET ks == FirstSeen(devices, {})
        IN  /\ Len(Groups) = Len(ks)
            /\ \A i \in DOMAIN ks : Groups[i].Addresses = AddressesWithKey(ks[i])

\* C3: there is one group per grouping key, and its member list is the
\* addresses of the devices with that key, in device list order.
C3_MembersInDeviceOrder ==
    Resolved =>
        \E o \in RangeOrders(Keys) :
            /\ Len(Groups) = Len(o)
            /\ \A i \in DOMAIN o : Groups[i].Addresses = AddressesWithKey(o[i])

\* A group with two members of different addresses has been returned.
C3_Witness ==
    /\ Resolved
    /\ ret.op = "GetConfigs"
    /\ \E g \in DOMAIN ret.groups.elems :
          /\ Len(ret.groups.elems[g].Addresses) = 2
          /\ ret.groups.elems[g].Addresses[1] # ret.groups.elems[g].Addresses[2]

\* The tag map the tag resolver is to build for a device: every key of the
\* local map or of an existing referenced group, with the value of the group
\* declared last among those that have the key, else the local value.
ExpectedTags(device) ==
    LET ids     == device.SharedTagGroups
        present == { i \in DOMAIN ids : ids[i] \in DOMAIN SharedTags }
        having(k) == { i \in present : k \in DOMAIN SharedTags[ids[i]] }
        last(k) == CHOOSE i \in having(k) : \A j \in having(k) : j <= i
        keys    == DOMAIN device.Tags \cup UNION { DOMAIN SharedTags[ids[i]] : i \in present }
    IN  [k \in keys |-> IF having(k) # {} THEN SharedTags[ids[last(k)]][k]
                        ELSE device.Tags[k]]

\* C4: for an address of the resolved inventory GetTags returns, without
\* error, the local tags of the device (the last one carrying the address)
\* overlaid in declaration order by the existing referenced shared tag groups.
C4_TagsOverlaidInDeclarationOrder ==
    (Resolved /\ ret.op = "GetTags" /\ ret.arg[1] \in DeviceAddresses) =>
        /\ ret.err = NoErr
        /\ ret.tags = ExpectedTags(LastDeviceAt(ret.arg[1]))

\* GetTags has answered for a device with local tags and two shared groups
\* that both set "env": the group declared last wins over both.
C4_Witness ==
    /\ Resolved
    /\ ret.op = "GetTags"
    /\ ret.arg[1] \in DeviceAddresses
    /\ LastDeviceAt(ret.arg[1]).SharedTagGroups = << "g1", "g2" >>
    /\ "env" \in DOMAIN LastDeviceAt(ret.arg[1]).Tags
    /\ ret.tags["env"] = "stage"
    /\ ret.tags["host"] = "h"

\* C5: GetTags for an address that no device of the resolved inventory
\* carries (before a resolve: any address) returns an empty map and no error.
C5_UnknownAddressEmptyTags ==
    (ret.op = "GetTags" /\ (~Resolved \/ ret.arg[1] \notin DeviceAddresses)) =>
        /\ ret.tags = EmptyMap
        /\ ret.err = NoErr

\* GetTags has answered for an unknown address after a resolve of a non-empty
\* inventory.
C5_Witness ==
    /\ Resolved
    /\ devices # << >>
    /\ ret.op = "GetTags"
    /\ ret.arg[1] \notin DeviceAddresses

C7_DanglingReferenceTolerated ==
    (Resolved /\ UniqueAddresses) =>
        /\ ret.op = "init" => ret.err \in LoadErrors \cup {NoErr}
        /\ \A i \in DOMAIN devices : \E g \in DOMAIN Groups :
              devices[i].Address \in Range(Groups[g].Addresses)
        /\ \A i \in DOMAIN devices :
              (MissingSubscriptions(devices[i]) \cup MissingTagSubscriptions(devices[i])) # {} =>
                 /\ \A k \in MissingSubscriptions(devices[i]) :
                       Warning("sub", k) \in Range(Log.warns)
                 /\ \A k \in MissingTagSubscriptions(devices[i]) :
                       Warning("tag", k) \in Range(Log.warns)
                 /\ \E g \in DOMAIN Groups :
                       /\ devices[i].Address \in Range(Groups[g].Addresses)
                       /\ Groups[g].Subscriptions = EffectiveSubscriptions(devices[i])
                       /\ Groups[g].TagSubscriptions = EffectiveTagSubscriptions(devices[i])

\* C8: an init that succeeds after an earlier successful init of the same
\* inventory leaves the group list and the tag index as they were.
C8_ResolveTwiceSameResult ==
    [][(Resolved /\ ret'.op = "init" /\ ret'.err = NoErr) =>
          /\ collectorConfigs' = collectorConfigs
          /\ deviceTags' = deviceTags
          /\ sharedTags' = sharedTags]_vars

\* C9: every group holds the template's own sequences followed by what the
\* references of the device that created it yield, whatever other groups were
\* created from the same template.
C9_GroupsBuiltOnTemplateCopies ==
    Resolved =>
        \A k \in Keys : \E g \in DOMAIN Groups :
            /\ Groups[g].Addresses = AddressesWithKey(k)
            /\ Groups[g].Subscriptions = EffectiveSubscriptions(Creator(k))
            /\ Groups[g].TagSubscriptions = EffectiveTagSubscriptions(Creator(k))

\* Every device is a member of a group, the members are as many as the
\* devices, and with unique addresses each address is listed exactly once.
Covered ==
    /\ \A i \in DOMAIN devices : \E g \in DOMAIN Groups :
          devices[i].Address \in Range(Groups[g].Addresses)
    /\ MemberCount(Groups) = Len(devices)
    /\ UniqueAddresses => \A i \in DOMAIN devices : Occurrences(devices[i].Address) = 1

C11_ResolvedGetConfigsServesGroups ==
    (Resolved /\ ret.op = "GetConfigs") =>
        /\ ret.err = NoErr
        /\ ret.groups.elems = collectorConfigs.elems
        /\ Len(ret.groups.elems) = Cardinality(Keys)

====
